---------------------------- MODULE Spec2Model ----------------------------
(***************************************************************************)
(* Model of the top-player snapshot ETL (scripts/etl_snapshot_top20.py)    *)
(* and of the pure functions it is built on: the deck signature and hash,  *)
(* the match hash (src/clashdb/hash_utils.py), the ranked 1v1 filter       *)
(* (src/analysist/battle_filters.py) and the archetype classifier          *)
(* (src/analysist/deck_type.py).                                           *)
(*                                                                         *)
(* Python dicts are functions with a finite domain; a missing key is a     *)
(* name outside DOMAIN.  A digest (sha1) is modelled as an injective tag   *)
(* around the value that is digested.                                      *)
(***************************************************************************)
EXTENDS Integers, Sequences, FiniteSets, TLC

VARIABLES
    pc,                  \* position of main(): scan, team, opp, summary, write, done, failed
    pl,                  \* index into top_players of the log being scanned
    nscan,               \* battle log entries read so far (bounded by MaxScan)
    cur,                 \* the battle record b of the current loop iteration
    seen_matches, scanned_entries, deduped_matches,
    cards_dim, deck_hash_to_type, deck_hash_to_cards,
    player_decks_top, meta_deck_types, meta_type_deck_ids, meta_type_cards,
    player_type_cards_top,
    db,                  \* the persistent sink: table name -> set of rows
    writes,              \* statements of the committed write phase, in order
    failure,             \* history: the statement that raised in the write phase
    summary,             \* the printed summary, <<>> before it is printed
    processed,           \* history: records that passed the dedup gate
    accepted,            \* history: raw card lists of the aggregated participants
    wins0,               \* history: total meta-by-type wins when the current match began
    arg                  \* argument of the pure function under study

vars == <<pc, pl, nscan, cur, seen_matches, scanned_entries, deduped_matches,
          cards_dim, deck_hash_to_type, deck_hash_to_cards, player_decks_top,
          meta_deck_types, meta_type_deck_ids, meta_type_cards,
          player_type_cards_top, db, writes, failure, summary, processed, accepted,
          wins0, arg>>

-----------------------------------------------------------------------------
(* Generic helpers *)

None == "None"

\* dict.get(key, default)
Get(d, k, default) == IF k \in DOMAIN d THEN d[k] ELSE default

Range(s) == {s[i] : i \in DOMAIN s}

RECURSIVE SumSeq(_)
SumSeq(s) == IF s = <<>> THEN 0 ELSE Head(s) + SumSeq(Tail(s))

\* sum of f[k].fld over the keys k of f that lie in S
RECURSIVE SumOver(_, _, _)
SumOver(f, S, fld) ==
    IF S = {} THEN 0
    ELSE LET k == CHOOSE x \in S : TRUE
         IN  f[k][fld] + SumOver(f, S \ {k}, fld)

\* s[:n]
Prefix(s, n) == SubSeq(s, 1, IF n < Len(s) THEN n ELSE Len(s))

\* str(int): the decimal digits
RECURSIVE Str(_)
Str(n) == IF n < 10 THEN <<n>> ELSE Str(n \div 10) \o <<n % 10>>

\* Python's < on two digit strings
RECURSIVE LexLess(_, _)
LexLess(a, b) ==
    IF b = <<>> THEN FALSE
    ELSE IF a = <<>> THEN TRUE
    ELSE IF Head(a) # Head(b) THEN Head(a) < Head(b)
    ELSE LexLess(Tail(a), Tail(b))

-----------------------------------------------------------------------------
(* Bounds *)

MaxScan == 2       \* battle log entries read in one run, over all logs
MaxNames == 8      \* length of the name lists given to classify_deck

-----------------------------------------------------------------------------
(* src/clashdb/hash_utils.py *)

\* the three variant strings in Python's string order: "evo" < "hero" < "normal"
VariantRank == [evo |-> 1, hero |-> 2, normal |-> 3]

\* A card key (str(cid), variant) keeps the id string as the integer it
\* prints; the strings are compared as Python compares them.
\* key=lambda x: (x[0], x[1])
CardKeyLess(a, b) ==
    \/ LexLess(Str(a[1]), Str(b[1]))
    \/ a[1] = b[1] /\ VariantRank[a[2]] < VariantRank[b[2]]

\* normalized.sort(...): stable insertion sort
RECURSIVE InsertCardKey(_, _)
InsertCardKey(x, s) ==
    IF s = <<>> THEN <<x>>
    ELSE IF CardKeyLess(x, Head(s)) THEN <<x>> \o s
         ELSE <<Head(s)>> \o InsertCardKey(x, Tail(s))

RECURSIVE SortCardKeys(_)
SortCardKeys(s) ==
    IF s = <<>> THEN <<>>
    ELSE InsertCardKey(s[Len(s)], SortCardKeys(SubSeq(s, 1, Len(s) - 1)))

\* the pairs joined in slot order
canonical_deck_signature_unsorted(cards) == cards

\* The joined string "id:variant|id:variant|..." is the sequence of its
\* segments: the join is injective, no id or variant holds ':' or '|'.
canonical_deck_signature(cards) == SortCardKeys(cards)

deck_hash_from_signature(sig) == <<"sha1", sig>>

\* str.upper() on the tags of the model
Upper(tag) ==
    CASE tag = "#a" -> "#A"
      [] tag = "#b" -> "#B"
      [] OTHER -> tag

TagLess(x, y) ==
    LET Rank == [t \in {"", "#A", "#B", "#C"} |->
                    CASE t = "" -> 0 [] t = "#A" -> 1 [] t = "#B" -> 2 [] OTHER -> 3]
    IN  Rank[x.tag] < Rank[y.tag]

\* out.sort(key=lambda x: x["tag"]): stable insertion sort
RECURSIVE InsertByTag(_, _)
InsertByTag(x, s) ==
    IF s = <<>> THEN <<x>>
    ELSE IF TagLess(x, Head(s)) THEN <<x>> \o s
         ELSE <<Head(s)>> \o InsertByTag(x, Tail(s))

RECURSIVE SortByTag(_)
SortByTag(s) ==
    IF s = <<>> THEN <<>>
    ELSE InsertByTag(s[Len(s)], SortByTag(SubSeq(s, 1, Len(s) - 1)))

\* side_payload: tag upper-cased, crowns as int, sorted by tag
side_payload(side) ==
    SortByTag([i \in DOMAIN side |->
                  [tag |-> Upper(Get(side[i], "tag", "")),
                   crowns |-> Get(side[i], "crowns", 0)]])

\* str() on the game mode ids of the model
StrOfModeId(id) ==
    CASE id = 72000006 -> "72000006"
      [] id = 72000464 -> "72000464"
      [] OTHER -> "72000001"

\* str(mode_id or mode_name or battle.get("type") or "")
mode_key(battle) ==
    LET game_mode == Get(battle, "gameMode", <<>>)
        mode_id == Get(game_mode, "id", 0)
        mode_name == Get(game_mode, "name", "")
    IN  IF mode_id # 0 THEN StrOfModeId(mode_id)
        ELSE IF mode_name # "" THEN mode_name
        ELSE Get(battle, "type", "")

\* the payload that is serialised with sorted keys and digested
match_hash_payload(battle) ==
    [battleTime |-> Get(battle, "battleTime", ""),
     mode |-> mode_key(battle),
     team |-> side_payload(Get(battle, "team", <<>>)),
     opponent |-> side_payload(Get(battle, "opponent", <<>>))]

match_hash(battle) == <<"sha1", match_hash_payload(battle)>>

-----------------------------------------------------------------------------
(* src/analysist/battle_filters.py *)

RANKED_MODE_ID_WHITELIST == {72000006, 72000464}

\* the filter on the game mode alone
is_ranked_battle_of_any_shape(battle) ==
    Get(Get(battle, "gameMode", <<>>), "id", 0) \in RANKED_MODE_ID_WHITELIST

is_ranked_1v1_battle(battle) ==
    LET team == Get(battle, "team", <<>>)
        opponent == Get(battle, "opponent", <<>>)
        mode_id == Get(Get(battle, "gameMode", <<>>), "id", 0)
    IN  /\ Len(team) = 1
        /\ Len(opponent) = 1
        /\ mode_id \in RANKED_MODE_ID_WHITELIST

-----------------------------------------------------------------------------
(* src/data/card_metadata.json as loaded by card_metadata.py and deck_type.py *)

Row(id, name, elixir) == [id |-> id, name |-> name, elixir |-> elixir]

\* The reference table of this model.  Mortar (id 27000002) has no row.
CardMetaList ==
    << Row(26000010, "Skeletons", 1),
       Row(26000030, "Ice Spirit", 1),
       Row(28000011, "The Log", 2),
       Row(26000038, "Ice Golem", 2),
       Row(26000000, "Knight", 3),
       Row(26000001, "Archers", 3),
       Row(28000000, "Fireball", 4),
       Row(27000008, "X-Bow", 6),
       Row(28000004, "Goblin Barrel", 3) @@ [is_bait_piece |-> TRUE],
       Row(26000026, "Princess", 3) @@ [is_bait_piece |-> TRUE],
       Row(26000019, "Spear Goblins", 2) @@ [is_bait_piece |-> TRUE],
       Row(26000046, "Bandit", 3) @@ [is_bridge_spam_piece |-> TRUE],
       Row(26000036, "Battle Ram", 4) @@ [is_bridge_spam_piece |-> TRUE],
       Row(26000009, "Golem", 8) @@ [is_big_tank |-> TRUE],
       Row(26000048, "Night Witch", 4),
       Row(26000015, "Baby Dragon", 4),
       Row(28000007, "Lightning", 6),
       Row(26000039, "Mega Minion", 3),
       Row(26000035, "Lumberjack", 4) >>

\* load_card_metadata: out[str(row["id"])] = row, a later row replaces an earlier one
load_card_metadata ==
    [id \in {CardMetaList[i].id : i \in DOMAIN CardMetaList} |->
        CardMetaList[CHOOSE i \in DOMAIN CardMetaList :
            /\ CardMetaList[i].id = id
            /\ \A j \in DOMAIN CardMetaList : CardMetaList[j].id = id => j <= i]]

\* card_name_from_id: the row's name, None when there is no row or no name
card_name_from_id(meta, card_id) ==
    IF card_id \notin DOMAIN meta THEN None
    ELSE IF Get(meta[card_id], "name", "") = "" THEN None
    ELSE meta[card_id].name

\* _CARD_META_BY_NAME = {c["name"]: c for c in _CARD_META_LIST}
CARD_META_BY_NAME ==
    [n \in {CardMetaList[i].name : i \in DOMAIN CardMetaList} |->
        CardMetaList[CHOOSE i \in DOMAIN CardMetaList :
            /\ CardMetaList[i].name = n
            /\ \A j \in DOMAIN CardMetaList : CardMetaList[j].name = n => j <= i]]

\* _get_card_meta: {} for an unknown name
get_card_meta(card_name) == Get(CARD_META_BY_NAME, card_name, <<>>)

-----------------------------------------------------------------------------
(* src/analysist/deck_type.py *)

ARCHETYPE_SIEGE == "Siege"
ARCHETYPE_BAIT == "Bait"
ARCHETYPE_CYCLE == "Cycle"
ARCHETYPE_BRIDGE_SPAM == "Bridge Spam"
ARCHETYPE_BEATDOWN == "Beatdown"
ARCHETYPE_HYBRID == "Hybrid"

SIEGE_XBOW == {"X-Bow"}
SIEGE_MORTAR == {"Mortar"}

DeckCards == 8             \* avg_elixir divides by 8.0
DefaultAvgElixir == 3      \* avg_elixir when no elixir is known
DefaultFourCycle == 12     \* four_card_cycle_cost when no elixir is known
BaitMin == 3
CycleMax == 9
BridgeSpamMin == 2
BigTankMin == 1
\* avg_elixir >= 3.5, the threshold as the fraction 7/2
BeatdownAvgNum == 7
BeatdownAvgDen == 2

\* sorted(elixirs)
RECURSIVE InsertInt(_, _)
InsertInt(x, s) ==
    IF s = <<>> THEN <<x>>
    ELSE IF x < Head(s) THEN <<x>> \o s
         ELSE <<Head(s)>> \o InsertInt(x, Tail(s))

RECURSIVE SortInts(_)
SortInts(s) ==
    IF s = <<>> THEN <<>>
    ELSE InsertInt(s[Len(s)], SortInts(SubSeq(s, 1, Len(s) - 1)))

\* the number of entries of metas that carry a true flag
CountFlag(metas, flag) ==
    Cardinality({i \in DOMAIN metas : Get(metas[i], flag, FALSE)})

\* the cycle cost summed over all known elixirs, not the four cheapest
precompute_deck_values_cycle_of_all(cards) ==
    LET metas == [i \in DOMAIN cards |-> get_card_meta(cards[i])]
        known == SelectSeq(metas, LAMBDA m : "elixir" \in DOMAIN m)
        elixirs == [i \in DOMAIN known |-> known[i].elixir]
        names_set == Range(cards)
    IN  [avg_elixir |-> IF Len(elixirs) = 0 THEN [num |-> DefaultAvgElixir, den |-> 1]
                        ELSE [num |-> SumSeq(elixirs), den |-> DeckCards],
         four_card_cycle_cost |-> IF Len(elixirs) = 0 THEN DefaultFourCycle
                                  ELSE SumSeq(elixirs),
         has_xbow |-> names_set \cap SIEGE_XBOW # {},
         has_mortar |-> names_set \cap SIEGE_MORTAR # {},
         bait_pieces |-> CountFlag(metas, "is_bait_piece"),
         bridge_spam_count |-> CountFlag(metas, "is_bridge_spam_piece"),
         big_tank_count |-> CountFlag(metas, "is_big_tank")]

\* avg_elixir is the fraction num/den
precompute_deck_values(cards) ==
    LET metas == [i \in DOMAIN cards |-> get_card_meta(cards[i])]
        known == SelectSeq(metas, LAMBDA m : "elixir" \in DOMAIN m)
        elixirs == [i \in DOMAIN known |-> known[i].elixir]
        names_set == Range(cards)
    IN  [avg_elixir |-> IF Len(elixirs) = 0 THEN [num |-> DefaultAvgElixir, den |-> 1]
                        ELSE [num |-> SumSeq(elixirs), den |-> DeckCards],
         four_card_cycle_cost |-> IF Len(elixirs) = 0 THEN DefaultFourCycle
                                  ELSE SumSeq(Prefix(SortInts(elixirs), 4)),
         has_xbow |-> names_set \cap SIEGE_XBOW # {},
         has_mortar |-> names_set \cap SIEGE_MORTAR # {},
         bait_pieces |-> CountFlag(metas, "is_bait_piece"),
         bridge_spam_count |-> CountFlag(metas, "is_bridge_spam_piece"),
         big_tank_count |-> CountFlag(metas, "is_big_tank")]

\* the cascade with the Cycle rule tried before the Bait rule
classify_deck_cycle_first(cards) ==
    IF cards = <<>> THEN ARCHETYPE_HYBRID
    ELSE LET v == precompute_deck_values(cards)
         IN  IF v.has_xbow THEN ARCHETYPE_SIEGE
             ELSE IF v.has_mortar THEN ARCHETYPE_SIEGE
             ELSE IF v.four_card_cycle_cost <= CycleMax THEN ARCHETYPE_CYCLE
             ELSE IF v.bait_pieces >= BaitMin THEN ARCHETYPE_BAIT
             ELSE IF v.bridge_spam_count >= BridgeSpamMin THEN ARCHETYPE_BRIDGE_SPAM
             ELSE IF /\ v.big_tank_count >= BigTankMin
                     /\ v.avg_elixir.num * BeatdownAvgDen >= BeatdownAvgNum * v.avg_elixir.den
                  THEN ARCHETYPE_BEATDOWN
             ELSE ARCHETYPE_HYBRID

classify_deck(cards) ==
    IF cards = <<>> THEN ARCHETYPE_HYBRID
    ELSE LET v == precompute_deck_values(cards)
         IN  IF v.has_xbow THEN ARCHETYPE_SIEGE
             ELSE IF v.has_mortar THEN ARCHETYPE_SIEGE
             ELSE IF v.bait_pieces >= BaitMin THEN ARCHETYPE_BAIT
             ELSE IF v.four_card_cycle_cost <= CycleMax THEN ARCHETYPE_CYCLE
             ELSE IF v.bridge_spam_count >= BridgeSpamMin THEN ARCHETYPE_BRIDGE_SPAM
             ELSE IF /\ v.big_tank_count >= BigTankMin
                     /\ v.avg_elixir.num * BeatdownAvgDen >= BeatdownAvgNum * v.avg_elixir.den
                  THEN ARCHETYPE_BEATDOWN
             ELSE ARCHETYPE_HYBRID

-----------------------------------------------------------------------------
(* scripts/etl_snapshot_top20.py: helpers *)

\* (tag or "").strip().upper(), '#' put in front when missing, on the tags of the model
normalize_tag(tag) ==
    CASE tag = "#a" -> "#A"
      [] tag = "#b" -> "#B"
      [] tag = "C" -> "#C"
      [] OTHER -> tag

card_variant_from_evolution_level(evolution_level) ==
    IF evolution_level = 1 THEN "evo"
    ELSE IF evolution_level = 2 THEN "hero"
    ELSE "normal"

\* The raw card lists of the model; a participant's "cards" names one of them.
Card(id, name) == [id |-> id, name |-> name]
EvoCard(id, name) == [id |-> id, name |-> name, evolutionLevel |-> 1]

RawDecks ==
    [siege |->
        << Card(27000002, "Mortar"), EvoCard(26000010, "Skeletons"),
           Card(26000030, "Ice Spirit"), Card(28000011, "The Log"),
           Card(26000038, "Ice Golem"), Card(26000000, "Knight"),
           Card(26000001, "Archers"), Card(28000000, "Fireball") >>,
     \* the same eight cards in another slot order, two names not sent
     unnamed |->
        << Card(28000000, "Fireball"), Card(26000001, "Archers"),
           [id |-> 26000000], Card(26000038, "Ice Golem"),
           Card(28000011, "The Log"), Card(26000030, "Ice Spirit"),
           EvoCard(26000010, "Skeletons"), Card(27000002, "") >>,
     golem |->
        << Card(26000009, "Golem"), Card(26000048, "Night Witch"),
           Card(26000015, "Baby Dragon"), Card(28000007, "Lightning"),
           Card(26000039, "Mega Minion"), Card(26000035, "Lumberjack"),
           Card(26000000, "Knight"), EvoCard(26000000, "Knight") >>,
     seven |->
        << Card(26000009, "Golem"), Card(26000048, "Night Witch"),
           Card(26000015, "Baby Dragon"), Card(28000007, "Lightning"),
           Card(26000039, "Mega Minion"), Card(26000035, "Lumberjack"),
           Card(26000000, "Knight") >>,
     noid |->
        << Card(26000009, "Golem"), Card(26000048, "Night Witch"),
           [name |-> "Baby Dragon"], Card(28000007, "Lightning"),
           Card(26000039, "Mega Minion"), Card(26000035, "Lumberjack"),
           Card(26000000, "Knight"), EvoCard(26000000, "Knight") >>,
     twice |->
        << Card(26000009, "Golem"), Card(26000048, "Night Witch"),
           Card(26000015, "Baby Dragon"), Card(28000007, "Lightning"),
           Card(26000039, "Mega Minion"), Card(26000035, "Lumberjack"),
           Card(26000000, "Knight"), Card(26000000, "Knight") >>]

\* participant.get("cards") or []
CardsOf(participant) ==
    IF "cards" \in DOMAIN participant THEN RawDecks[participant.cards] ELSE <<>>

\* the None that _extract_8_cards returns: never a list of eight
NoObs == <<>>

\* the extraction without the test for eight distinct (card_id, variant) pairs
extract_8_cards_unchecked_pairs(participant, card_meta) ==
    LET cards == CardsOf(participant)
        first8 == Prefix(cards, DeckCards)
    IN  IF Len(cards) < DeckCards THEN NoObs
        ELSE IF \E i \in DOMAIN first8 : "id" \notin DOMAIN first8[i] THEN NoObs
        ELSE [idx \in DOMAIN first8 |->
                 [card_id |-> first8[idx].id,
                  card_name |-> Get(first8[idx], "name", ""),
                  card_variant |-> card_variant_from_evolution_level(
                                      Get(first8[idx], "evolutionLevel", 0)),
                  slot |-> idx]]

\* NoObs, or the eight CardObs of the participant
extract_8_cards(participant, card_meta) ==
    LET cards == CardsOf(participant)
        first8 == Prefix(cards, DeckCards)
        nameOf(c) == IF Get(c, "name", "") # "" THEN c.name
                     ELSE LET nm == card_name_from_id(card_meta, c.id)
                          IN  IF nm = None THEN "" ELSE nm
        out == [idx \in DOMAIN first8 |->
                   [card_id |-> first8[idx].id,
                    card_name |-> nameOf(first8[idx]),
                    card_variant |-> card_variant_from_evolution_level(
                                        Get(first8[idx], "evolutionLevel", 0)),
                    slot |-> idx]]
    IN  IF Len(cards) < DeckCards THEN NoObs
        ELSE IF \E i \in DOMAIN first8 : "id" \notin DOMAIN first8[i] THEN NoObs
        ELSE IF Cardinality({<<out[i].card_id, out[i].card_variant>> : i \in DOMAIN out})
                    # DeckCards THEN NoObs
        ELSE out

\* the comparison with >= in place of >
participant_is_win_own_crowns_or_more(battle, participant_tag) ==
    LET t0 == battle.team[1]
        o0 == battle.opponent[1]
    IN  IF participant_tag = normalize_tag(Get(t0, "tag", ""))
        THEN Get(t0, "crowns", 0) >= Get(o0, "crowns", 0)
        ELSE Get(o0, "crowns", 0) >= Get(t0, "crowns", 0)

participant_is_win_ranked_1v1(battle, participant_tag) ==
    LET team == Get(battle, "team", <<>>)
        opp == Get(battle, "opponent", <<>>)
    IN  IF ~(Len(team) = 1 /\ Len(opp) = 1) THEN FALSE
        ELSE LET t0 == team[1]
                 o0 == opp[1]
                 team_tag == normalize_tag(Get(t0, "tag", ""))
                 opp_tag == normalize_tag(Get(o0, "tag", ""))
                 team_crowns == Get(t0, "crowns", 0)
                 opp_crowns == Get(o0, "crowns", 0)
             IN  IF normalize_tag(participant_tag) = team_tag
                    THEN team_crowns > opp_crowns
                 ELSE IF normalize_tag(participant_tag) = opp_tag
                    THEN opp_crowns > team_crowns
                 ELSE FALSE

\* load_deck_type_overrides: rows with an empty hash or type are left out
load_deck_type_overrides(rows) ==
    LET kept == {r \in rows : r.deck_hash # <<>> /\ r.deck_type # ""}
    IN  [dh \in {r.deck_hash : r \in kept} |->
            (CHOOSE r \in kept : r.deck_hash = dh).deck_type]

\* card_keys, sig and dh of a list of CardObs
card_keys_of(card_obs) ==
    [i \in DOMAIN card_obs |-> <<card_obs[i].card_id, card_obs[i].card_variant>>]

deck_hash_of(card_obs) ==
    deck_hash_from_signature(canonical_deck_signature(card_keys_of(card_obs)))

\* names_for_classifier
names_for_classifier_of(card_obs) ==
    LET named == SelectSeq(card_obs, LAMBDA c : c.card_name # "")
    IN  [i \in DOMAIN named |-> named[i].card_name]

\* the override table not consulted
deck_type_classifier_only(overrides, dh, names) == classify_deck(names)

\* deck_type_overrides.get(dh) or classify_deck(names_for_classifier)
deck_type_of(overrides, dh, names) ==
    IF dh \in DOMAIN overrides THEN overrides[dh] ELSE classify_deck(names)

Counter(uses, wins) == [uses |-> uses, wins |-> wins]

\* a won match counted as a win and not as a use
bump_win_or_use(m, k, won) ==
    IF k \in DOMAIN m
    THEN [m EXCEPT ![k] = Counter(@.uses + (IF won THEN 0 ELSE 1),
                                  @.wins + (IF won THEN 1 ELSE 0))]
    ELSE m @@ (k :> Counter(IF won THEN 0 ELSE 1, IF won THEN 1 ELSE 0))

\* m[k]["uses"] += 1; m[k]["wins"] += 1 if won else 0, on a defaultdict
bump(m, k, won) ==
    IF k \in DOMAIN m
    THEN [m EXCEPT ![k] = Counter(@.uses + 1, @.wins + (IF won THEN 1 ELSE 0))]
    ELSE m @@ (k :> Counter(1, IF won THEN 1 ELSE 0))

\* m[k]["uses"] += uses; m[k]["wins"] += wins, on a defaultdict
add_counter(m, k, uses, wins) ==
    IF k \in DOMAIN m
    THEN [m EXCEPT ![k] = Counter(@.uses + uses, @.wins + wins)]
    ELSE m @@ (k :> Counter(uses, wins))

\* for c in card_obs: m[key(c)] is bumped, in slot order
RECURSIVE bump_cards(_, _, _, _)
bump_cards(m, dtype, card_obs, won) ==
    IF card_obs = <<>> THEN m
    ELSE bump_cards(bump(m, <<dtype, Head(card_obs).card_id, Head(card_obs).card_variant>>, won),
                    dtype, Tail(card_obs), won)

\* for c in card_obs: if c.card_name: cards_dim[c.card_id] = c.card_name
RECURSIVE store_cards_dim(_, _)
store_cards_dim(dim, card_obs) ==
    IF card_obs = <<>> THEN dim
    ELSE LET c == Head(card_obs)
             d == IF c.card_name = "" THEN dim
                  ELSE IF c.card_id \in DOMAIN dim
                       THEN [dim EXCEPT ![c.card_id] = c.card_name]
                       ELSE dim @@ (c.card_id :> c.card_name)
         IN  store_cards_dim(d, Tail(card_obs))

-----------------------------------------------------------------------------
(* Inputs: the ranking, the battle logs and the sink before the run *)

\* fetch_top_players(...)[:top_n]; the third row carries no tag
RawTopPlayers ==
    << [tag |-> "#A", name |-> "Ana", trophies |-> 9000, rank |-> 1],
       [tag |-> "#b", name |-> "Bo", trophies |-> 8900, rank |-> 2],
       [tag |-> "", name |-> "", trophies |-> 0, rank |-> 3] >>

\* lines 183-195: rows without a tag are dropped, the tag is normalised
top_players ==
    LET kept == SelectSeq(RawTopPlayers, LAMBDA p : normalize_tag(p.tag) # "")
    IN  [i \in DOMAIN kept |->
            [player_tag |-> normalize_tag(kept[i].tag),
             player_name |-> kept[i].name,
             trophies |-> kept[i].trophies,
             rank_global |-> kept[i].rank]]

top_tags == {top_players[i].player_tag : i \in DOMAIN top_players}

\* every tag taken for a top player
in_top_cohort_always(tag) == TRUE

\* if tag in top_tags (line 289)
in_top_cohort(tag) == tag \in top_tags

Tags == {"#A", "#B", "#C"}
GoodDecks == {"siege", "unnamed", "golem"}
BadDecks == {"seven", "noid", "twice"}
DeckNo == [siege |-> 1, unnamed |-> 2, golem |-> 3, seven |-> 4, noid |-> 5, twice |-> 6]
Times == << "T11", "T12", "T13", "T21", "T22", "T23", "T31", "T32", "T33" >>
BadTimes == << "T41", "T42", "T43", "T44", "T45", "T46" >>
DeckOfTag(tag) ==
    CASE tag = "#A" -> "siege" [] tag = "#B" -> "golem" [] OTHER -> "unnamed"
Ladder == 72000006

Part(tag, crowns, cards) == [tag |-> tag, crowns |-> crowns, cards |-> cards]

Battle(time, mode_id, team, opp) ==
    [battleTime |-> time, type |-> "PvP",
     gameMode |-> [id |-> mode_id, name |-> "Ladder"],
     team |-> team, opponent |-> opp]

\* the record of the same match in the other participant's log
SwapSides(b) == [b EXCEPT !.team = b.opponent, !.opponent = b.team]

\* The matches of the model, each as recorded in the log of its first player.
\* Every player keeps one deck over the matches at time T00, which have all outcomes.
OutcomeMatches ==
    { Battle("T00", Ladder, <<Part(pq[1], c[1], DeckOfTag(pq[1]))>>,
                            <<Part(pq[2], c[2], DeckOfTag(pq[2]))>>) :
        pq \in {<<"#A", "#B">>, <<"#A", "#C">>, <<"#B", "#C">>},
        c \in {<<3, 1>>, <<1, 3>>, <<1, 1>>} }

\* matches between the two top players, one for every pair of well-formed decks
DeckMatches ==
    { Battle(Times[3 * (DeckNo[d[1]] - 1) + DeckNo[d[2]]], Ladder,
             <<Part("#A", 2, d[1])>>, <<Part("#B", 1, d[2])>>) :
        d \in GoodDecks \X GoodDecks }

\* matches with a malformed participant
BadPartMatches(P) ==
    { Battle(BadTimes[DeckNo[d]], Ladder,
             <<Part(P, 2, DeckOfTag(P))>>, <<Part("#C", 0, d)>>) : d \in BadDecks }
    \cup { Battle(BadTimes[1], Ladder, <<Part(P, 0, "seven")>>, <<Part("#C", 1, "unnamed")>>),
           Battle(BadTimes[2], Ladder, <<Part(P, 1, DeckOfTag(P))>>,
                  <<[crowns |-> 0, cards |-> "unnamed"]>>) }

\* records the ranked 1v1 filter rejects: another mode, two entrants on a side
OtherRecords(P) ==
    { Battle("T00", 72000001, <<Part(P, 3, DeckOfTag(P))>>, <<Part("#C", 0, "unnamed")>>),
      Battle("T00", Ladder, <<Part(P, 3, DeckOfTag(P)), Part("#C", 3, "unnamed")>>,
             <<Part(IF P = "#A" THEN "#B" ELSE "#A", 0, "golem")>>) }

Matches == OutcomeMatches \cup DeckMatches

\* get_player_battlelog(P): what the log of P may hold; P is on the team side
BattleLogEntries ==
    [P \in top_tags |->
        {b \in Matches : b.team[1].tag = P}
        \cup {SwapSides(b) : b \in {m \in Matches : m.opponent[1].tag = P}}
        \cup BadPartMatches(P)
        \cup OtherRecords(P)]

\* the list of truncate_snapshot_tables with the override table added
TruncatedTablesAndOverrides ==
    << "player_type_cards", "meta_type_cards", "meta_type_deck_ids", "meta_deck_types",
       "player_decks", "deck_cards", "decks", "cards", "player", "deck_types",
       "deck_type_overrides" >>

\* The sink before the run: the previous snapshot and the manual overrides.
TruncatedTables ==
    << "player_type_cards", "meta_type_cards", "meta_type_deck_ids", "meta_deck_types",
       "player_decks", "deck_cards", "decks", "cards", "player", "deck_types" >>

GolemHash == deck_hash_of(extract_8_cards([cards |-> "golem"], load_card_metadata))
SiegeHash == deck_hash_of(extract_8_cards([cards |-> "siege"], load_card_metadata))

InitialSink ==
    [t \in Range(TruncatedTables) \cup {"deck_type_overrides"} |->
        CASE t = "deck_type_overrides" ->
                {[deck_hash |-> GolemHash, deck_type |-> "Siege"],
                 [deck_hash |-> SiegeHash, deck_type |-> ""]}
          [] t = "deck_types" -> {[deck_type |-> "Cycle"]}
          [] t = "meta_deck_types" -> {[deck_type |-> "Cycle", uses |-> 5, wins |-> 2]}
          [] t = "player" -> {[player_tag |-> "#Z", player_name |-> "Zed",
                               trophies |-> 8000, rank_global |-> 1]}
          [] OTHER -> {}]

\* line 178-179: the overrides are loaded before anything else
deck_type_overrides == load_deck_type_overrides(InitialSink["deck_type_overrides"])

-----------------------------------------------------------------------------
(* scripts/etl_snapshot_top20.py: main() *)

Init ==
    /\ pc = "scan"
    /\ pl = 1
    /\ nscan = 0
    /\ cur = <<>>
    /\ seen_matches = {}
    /\ scanned_entries = 0
    /\ deduped_matches = 0
    /\ cards_dim = <<>>
    /\ deck_hash_to_type = <<>>
    /\ deck_hash_to_cards = <<>>
    /\ player_decks_top = <<>>
    /\ meta_deck_types = <<>>
    /\ meta_type_deck_ids = <<>>
    /\ meta_type_cards = <<>>
    /\ player_type_cards_top = <<>>
    /\ db = InitialSink
    /\ writes = <<>>
    /\ failure = <<>>
    /\ summary = <<>>
    /\ processed = {}
    /\ accepted = {}
    /\ wins0 = 0
    /\ arg = <<>>

aggregates == <<cards_dim, deck_hash_to_type, deck_hash_to_cards, player_decks_top,
                meta_deck_types, meta_type_deck_ids, meta_type_cards>>
sink == <<db, writes, failure, summary>>

TotalWins(m) == SumOver(m, DOMAIN m, "wins")
TotalUses(m) == SumOver(m, DOMAIN m, "uses")

\* One iteration of "for b in battles" up to the participant loop (lines 226-241);
\* cur is the loop variable b.
\* The log is read entry by entry, so scanned_entries grows by one per entry.
ScanBattle(b) ==
    /\ pc = "scan"
    /\ nscan < MaxScan
    /\ nscan' = nscan + 1
    /\ scanned_entries' = scanned_entries + 1
    /\ cur' = b
    /\ IF ~is_ranked_1v1_battle(b) \/ match_hash(b) \in seen_matches
       THEN UNCHANGED <<pc, seen_matches, deduped_matches, processed, wins0>>
       ELSE /\ seen_matches' = seen_matches \cup {match_hash(b)}
            /\ deduped_matches' = deduped_matches + 1
            /\ processed' = processed \cup {b}
            /\ IF Len(Get(b, "team", <<>>)) = 1 /\ Len(Get(b, "opponent", <<>>)) = 1
               THEN /\ pc' = "team"
                    /\ wins0' = TotalWins(meta_deck_types)
               ELSE UNCHANGED <<pc, wins0>>
    /\ UNCHANGED <<pl, aggregates, player_type_cards_top, sink, accepted, arg>>

\* the participant the loop "for part in (team[0], opp[0])" is at
CurrentPart == IF pc = "team" THEN cur.team[1] ELSE cur.opponent[1]

\* _extract_8_cards reads nothing of the participant but its card list, and
\* the hash and the names follow from the CardObs: each is evaluated once per
\* raw card list.
Extracted ==
    [d \in DOMAIN RawDecks |-> extract_8_cards([cards |-> d], load_card_metadata)]
DeckHash ==
    [d \in {x \in DOMAIN RawDecks : Extracted[x] # NoObs} |-> deck_hash_of(Extracted[d])]
DeckType ==
    [d \in DOMAIN DeckHash |->
        deck_type_of(deck_type_overrides, DeckHash[d], names_for_classifier_of(Extracted[d]))]

\* One iteration of the participant loop (lines 244-291).
ProcessParticipant ==
    /\ pc \in {"team", "opp"}
    /\ pc' = IF pc = "team" THEN "opp" ELSE "scan"
    /\ LET part == CurrentPart
           tag == normalize_tag(Get(part, "tag", ""))
           card_obs == Extracted[part.cards]
       IN  IF tag = "" \/ card_obs = NoObs
           THEN UNCHANGED <<aggregates, accepted>>
           ELSE LET dh == DeckHash[part.cards]
                    dtype == DeckType[part.cards]
                    won == participant_is_win_ranked_1v1(cur, tag)
                IN  /\ IF dh \notin DOMAIN deck_hash_to_type
                       THEN /\ deck_hash_to_type' = deck_hash_to_type @@ (dh :> dtype)
                            /\ deck_hash_to_cards' = deck_hash_to_cards @@ (dh :> card_obs)
                       ELSE UNCHANGED <<deck_hash_to_type, deck_hash_to_cards>>
                    /\ cards_dim' = store_cards_dim(cards_dim, card_obs)
                    /\ meta_deck_types' = bump(meta_deck_types, dtype, won)
                    /\ meta_type_deck_ids' = bump(meta_type_deck_ids, <<dtype, dh>>, won)
                    /\ meta_type_cards' = bump_cards(meta_type_cards, dtype, card_obs, won)
                    /\ player_decks_top' =
                          IF in_top_cohort(tag)
                          THEN bump(player_decks_top, <<tag, dh>>, won)
                          ELSE player_decks_top
                    /\ accepted' = accepted \cup {part.cards}
    /\ UNCHANGED <<pl, nscan, cur, seen_matches, scanned_entries, deduped_matches,
                   player_type_cards_top, sink, processed, wins0, arg>>

\* the end of one player's log: "for pl in top_players" moves on
NextPlayer ==
    /\ pc = "scan"
    /\ pl <= Len(top_players)
    /\ pl' = pl + 1
    /\ UNCHANGED <<pc, nscan, cur, seen_matches, scanned_entries, deduped_matches,
                   aggregates, player_type_cards_top, sink, processed, accepted,
                   wins0, arg>>

\* the totals go to the first card of the deck only
fan_out_first_card(m, ptag, dtype, cards, rec) ==
    IF cards = <<>> THEN m
    ELSE add_counter(m, <<ptag, dtype, Head(cards).card_id, Head(cards).card_variant>>,
                     rec.uses, rec.wins)

\* for c in deck_hash_to_cards.get(dh, []): the counter of (ptag, dtype, c) grows
RECURSIVE fan_out(_, _, _, _, _)
fan_out(m, ptag, dtype, cards, rec) ==
    IF cards = <<>> THEN m
    ELSE fan_out(add_counter(m, <<ptag, dtype, Head(cards).card_id, Head(cards).card_variant>>,
                             rec.uses, rec.wins),
                 ptag, dtype, Tail(cards), rec)

\* for (ptag, dh), rec in player_decks_top.items() (lines 295-301)
RECURSIVE derive_player_type_cards(_, _)
derive_player_type_cards(m, keys) ==
    IF keys = {} THEN m
    ELSE LET k == CHOOSE x \in keys : TRUE
             dtype == Get(deck_hash_to_type, k[2], ARCHETYPE_HYBRID)
             cards == Get(deck_hash_to_cards, k[2], <<>>)
         IN  derive_player_type_cards(
                 fan_out(m, k[1], dtype, cards, player_decks_top[k]), keys \ {k})

\* the second pass, after the last log
DerivePlayerTypeCards ==
    /\ pc = "scan"
    /\ pl > Len(top_players)
    /\ player_type_cards_top' = derive_player_type_cards(<<>>, DOMAIN player_decks_top)
    /\ pc' = "summary"
    /\ UNCHANGED <<pl, nscan, cur, seen_matches, scanned_entries, deduped_matches,
                   aggregates, sink, processed, accepted, wins0, arg>>

\* the write phase starts whether or not --dry-run was given
after_summary_always_write(dry_run) == "write"

\* if args.dry_run: print the notice and return (lines 311-313)
after_summary(dry_run) == IF dry_run THEN "done" ELSE "write"

\* the summary is printed, and with --dry-run the notice that nothing is
\* written (lines 304-313)
Summary(dry_run) ==
    /\ pc = "summary"
    /\ summary' = [players_fetched |-> Len(top_players),
                   entries_scanned |-> scanned_entries,
                   deduped_matches |-> deduped_matches,
                   unique_decks |-> Cardinality(DOMAIN deck_hash_to_type),
                   player_decks_rows |-> Cardinality(DOMAIN player_decks_top),
                   dry_run_notice |-> dry_run]
    /\ pc' = after_summary(dry_run)
    /\ UNCHANGED <<pl, nscan, cur, seen_matches, scanned_entries, deduped_matches,
                   aggregates, player_type_cards_top, db, writes, failure,
                   processed, accepted, wins0, arg>>

-----------------------------------------------------------------------------
(* The write phase: one transaction, truncate and reload (lines 318-468) *)

Truncate(t) == [op |-> "truncate", table |-> t, key |-> <<>>, rows |-> {}]
Insert(t, key, rows) == [op |-> "insert", table |-> t, key |-> key, rows |-> rows]

\* truncate_snapshot_tables: child -> parent order
truncate_snapshot_tables == [i \in DOMAIN TruncatedTables |-> Truncate(TruncatedTables[i])]

\* the row lists of the ten inserts, in the order of the code
InsertStatements ==
    << Insert("deck_types", <<>>,
              {[deck_type |-> deck_hash_to_type[dh]] : dh \in DOMAIN deck_hash_to_type}),
       Insert("cards", <<"card_id">>,
              {[card_id |-> cid, card_name |-> cards_dim[cid]] : cid \in DOMAIN cards_dim}),
       Insert("player", <<"player_tag">>, Range(top_players)),
       Insert("decks", <<"deck_hash">>,
              {[deck_hash |-> dh, deck_type |-> deck_hash_to_type[dh]] :
                  dh \in DOMAIN deck_hash_to_type}),
       Insert("deck_cards", <<"deck_hash", "card_id", "card_variant">>,
              UNION {{[deck_hash |-> dh,
                       card_id |-> deck_hash_to_cards[dh][i].card_id,
                       card_variant |-> deck_hash_to_cards[dh][i].card_variant,
                       slot |-> deck_hash_to_cards[dh][i].slot] :
                          i \in DOMAIN deck_hash_to_cards[dh]} :
                     dh \in DOMAIN deck_hash_to_cards}),
       Insert("player_decks", <<"player_tag", "deck_hash">>,
              {[player_tag |-> k[1], deck_hash |-> k[2],
                uses |-> player_decks_top[k].uses, wins |-> player_decks_top[k].wins] :
                  k \in DOMAIN player_decks_top}),
       Insert("meta_deck_types", <<>>,
              {[deck_type |-> dt, uses |-> meta_deck_types[dt].uses,
                wins |-> meta_deck_types[dt].wins] : dt \in DOMAIN meta_deck_types}),
       Insert("meta_type_deck_ids", <<>>,
              {[deck_type |-> k[1], deck_hash |-> k[2],
                uses |-> meta_type_deck_ids[k].uses, wins |-> meta_type_deck_ids[k].wins] :
                  k \in DOMAIN meta_type_deck_ids}),
       Insert("meta_type_cards", <<>>,
              {[deck_type |-> k[1], card_id |-> k[2], card_variant |-> k[3],
                uses |-> meta_type_cards[k].uses, wins |-> meta_type_cards[k].wins] :
                  k \in DOMAIN meta_type_cards}),
       Insert("player_type_cards", <<>>,
              {[player_tag |-> k[1], deck_type |-> k[2], card_id |-> k[3],
                card_variant |-> k[4],
                uses |-> player_type_cards_top[k].uses,
                wins |-> player_type_cards_top[k].wins] :
                  k \in DOMAIN player_type_cards_top}) >>

\* the statements main() sends: an insert with no rows is not executed
WriteStatements ==
    truncate_snapshot_tables \o SelectSeq(InsertStatements, LAMBDA st : st.rows # {})

KeyOf(row, key) == [i \in DOMAIN key |-> row[key[i]]]

\* The foreign keys of the sink, <<referencing table, referenced table>>: the
\* schema is not among the source files; these are the references of the
\* data model (types, cards, players and decks exist before the rows that
\* name them; the override table is managed outside and references none).
References ==
    { <<"decks", "deck_types">>,
      <<"deck_cards", "decks">>, <<"deck_cards", "cards">>,
      <<"player_decks", "player">>, <<"player_decks", "decks">>,
      <<"meta_deck_types", "deck_types">>,
      <<"meta_type_deck_ids", "deck_types">>, <<"meta_type_deck_ids", "decks">>,
      <<"meta_type_cards", "deck_types">>, <<"meta_type_cards", "cards">>,
      <<"player_type_cards", "player">>, <<"player_type_cards", "deck_types">>,
      <<"player_type_cards", "cards">> }

\* TRUNCATE ... CASCADE: the tables of T and every table that references one
RECURSIVE Cascade(_)
Cascade(T) ==
    LET more == T \cup {e[1] : e \in {x \in References : x[2] \in T}}
    IN  IF more = T THEN T ELSE Cascade(more)

CascadeOf == [t \in Range(TruncatedTablesAndOverrides) |-> Cascade({t})]

\* the effect of one statement on the tables; ON CONFLICT (key) DO UPDATE
\* replaces the row that has the key of a new row
Execute(tables, st) ==
    IF st.op = "truncate"
    THEN [t \in DOMAIN tables |-> IF t \in CascadeOf[st.table] THEN {} ELSE tables[t]]
    ELSE IF st.key = <<>> THEN [tables EXCEPT ![st.table] = @ \cup st.rows]
    ELSE [tables EXCEPT ![st.table] =
            {r \in @ : \A n \in st.rows : KeyOf(n, st.key) # KeyOf(r, st.key)}
                \cup st.rows]

\* <<the tables as the open transaction sees them after n statements>>, n = 0, 1, ...
RECURSIVE ExecuteAll(_, _)
ExecuteAll(tables, sts) ==
    IF sts = <<>> THEN <<tables>>
    ELSE <<tables>> \o ExecuteAll(Execute(tables, Head(sts)), Tail(sts))

\* every statement committed as it runs
sink_keeps_uncommitted(before, uncommitted) == uncommitted

\* "with engine.begin() as conn": an exception inside the block rolls the
\* transaction back, the sink keeps what it held before the block
sink_after_failure(before, uncommitted) == before

\* every statement runs and the transaction commits
WriteCommit ==
    /\ pc = "write"
    /\ \E sts \in {WriteStatements} :
          /\ db' = ExecuteAll(db, sts)[Len(sts) + 1]
          /\ writes' = [i \in DOMAIN sts |-> [op |-> sts[i].op, table |-> sts[i].table]]
    /\ pc' = "done"
    /\ UNCHANGED <<pl, nscan, cur, seen_matches, scanned_entries, deduped_matches,
                   aggregates, player_type_cards_top, failure, summary,
                   processed, accepted, wins0, arg>>

\* some statement k raises after the k - 1 statements before it ran
WriteFail ==
    /\ pc = "write"
    /\ \E sts \in {WriteStatements} : \E seen \in {ExecuteAll(db, sts)} :
          \E k \in DOMAIN sts :
             /\ db' = sink_after_failure(db, seen[k])
             /\ failure' = [op |-> sts[k].op, dirty |-> seen[k] # db]
    /\ pc' = "failed"
    /\ UNCHANGED <<pl, nscan, cur, seen_matches, scanned_entries, deduped_matches,
                   aggregates, player_type_cards_top, writes, summary,
                   processed, accepted, wins0, arg>>

Next ==
    \/ /\ pl <= Len(top_players)
       /\ \E b \in BattleLogEntries[top_players[pl].player_tag] : ScanBattle(b)
    \/ ProcessParticipant
    \/ NextPlayer
    \/ DerivePlayerTypeCards
    \/ \E dry_run \in BOOLEAN : Summary(dry_run)
    \/ WriteCommit
    \/ WriteFail

Spec == Init /\ [][Next]_vars

-----------------------------------------------------------------------------
(* The pure functions on their own: arg is the argument, the run stands still *)

Idle(at) ==
    /\ pc = at
    /\ pl = 1
    /\ nscan = 0
    /\ cur = <<>>
    /\ seen_matches = {}
    /\ scanned_entries = 0
    /\ deduped_matches = 0
    /\ cards_dim = <<>>
    /\ deck_hash_to_type = <<>>
    /\ deck_hash_to_cards = <<>>
    /\ player_decks_top = <<>>
    /\ meta_deck_types = <<>>
    /\ meta_type_deck_ids = <<>>
    /\ meta_type_cards = <<>>
    /\ player_type_cards_top = <<>>
    /\ db = InitialSink
    /\ writes = <<>>
    /\ failure = <<>>
    /\ summary = <<>>
    /\ processed = {}
    /\ accepted = {}
    /\ wins0 = 0

run == <<pc, pl, nscan, cur, seen_matches, scanned_entries, deduped_matches,
         aggregates, player_type_cards_top, sink, processed, accepted, wins0>>

\* canonical_deck_signature on the card keys of a deck, in every slot order
CardKeys == [d \in DOMAIN DeckHash |-> card_keys_of(Extracted[d])]

InitSignature ==
    /\ Idle("signature")
    /\ \E d \in {"siege", "golem"} : arg = [deck |-> d, cards |-> CardKeys[d]]

\* the cards of slots i and i + 1 change places
SwapSlots(i) ==
    /\ pc = "signature"
    /\ i \in 1..(Len(arg.cards) - 1)
    /\ arg' = [arg EXCEPT !.cards = [@ EXCEPT ![i] = arg.cards[i + 1],
                                             ![i + 1] = arg.cards[i]]]
    /\ UNCHANGED run

NextSignature == \E i \in 1..(DeckCards - 1) : SwapSlots(i)

SpecSignature == InitSignature /\ [][NextSignature]_vars

\* match_hash on a record and on the record of the other participant's log
HashParts ==
    {[tag |-> t, crowns |-> c] : t \in {"#A", "#b", "#C"}, c \in {0, 1}}
HashSides ==
    {<<p>> : p \in HashParts}
    \cup {<<[tag |-> "#C", crowns |-> 1], [tag |-> "#A", crowns |-> 0]>>}
HashModes ==
    {[id |-> Ladder, name |-> "Ladder"], [name |-> "Friendly"], [id |-> 0]}
HashRecords ==
    {[battleTime |-> t, type |-> "PvP", gameMode |-> m, team |-> a, opponent |-> b] :
        t \in {"T00", ""}, m \in HashModes, a \in HashSides, b \in HashSides}

InitMatchHash ==
    /\ Idle("match_hash")
    /\ arg \in HashRecords

\* the same match read from the log of the other participant
ReadOtherLog ==
    /\ pc = "match_hash"
    /\ arg' = SwapSides(arg)
    /\ UNCHANGED run

NextMatchHash == ReadOtherLog

SpecMatchHash == InitMatchHash /\ [][NextMatchHash]_vars

\* classify_deck on the name lists over these names; a list is built in the
\* order of the names below, classify_deck reads no order-dependent value
\* (a sum, a sorted list, counts and a set)
ClassifierNames ==
    << "X-Bow", "Mortar", "Goblin Barrel", "Princess", "Spear Goblins",
       "Skeletons", "The Log", "Bandit", "Battle Ram", "Golem", "Fireball" >>

NameNo(n) == CHOOSE i \in DOMAIN ClassifierNames : ClassifierNames[i] = n

InitClassify ==
    /\ Idle("classify")
    /\ arg = <<>>

AddName(i) ==
    /\ pc = "classify"
    /\ Len(arg) < MaxNames
    /\ IF arg = <<>> THEN TRUE ELSE NameNo(arg[Len(arg)]) <= i
    /\ arg' = Append(arg, ClassifierNames[i])
    /\ UNCHANGED run

NextClassify == \E i \in DOMAIN ClassifierNames : AddName(i)

SpecClassify == InitClassify /\ [][NextClassify]_vars

-----------------------------------------------------------------------------
(* Claims *)

\* the five aggregate maps
CounterMaps ==
    << meta_deck_types, meta_type_deck_ids, meta_type_cards,
       player_decks_top, player_type_cards_top >>

UsesAt(m, k) == IF k \in DOMAIN m THEN m[k].uses ELSE 0
WinsAt(m, k) == IF k \in DOMAIN m THEN m[k].wins ELSE 0

\* C1: a match that is in the log of both of its participants, with the
\* sides exchanged, passes the dedup gate once: no two records that passed
\* the gate are the two sides' records of one match, and the count of
\* deduplicated matches is the number of distinct matches.
C1_MatchAggregatedOnce ==
    /\ \A b \in processed : SwapSides(b) # b => SwapSides(b) \notin processed
    /\ deduped_matches =
          Cardinality({{b, SwapSides(b)} : b \in processed})

\* C2: match_hash gives a record and the record with team and opponent
\* exchanged the same hash.
C2_MatchHashSideInvariant ==
    pc = "match_hash" => match_hash(arg) = match_hash(SwapSides(arg))

\* signature of each deck in the order it was observed in
ObservedSignature ==
    [d \in DOMAIN CardKeys |-> canonical_deck_signature(CardKeys[d])]

\* C3: every slot order of the eight (card_id, variant) pairs of a deck has
\* the signature, and the deck hash, of the order the deck was observed in.
C3_SignaturePermutationInvariant ==
    pc = "signature" =>
        \E sig \in {canonical_deck_signature(arg.cards)} :
            /\ sig = ObservedSignature[arg.deck]
            /\ deck_hash_from_signature(sig)
                  = deck_hash_from_signature(ObservedSignature[arg.deck])

\* C3 witness: the eight pairs in the reverse of the observed order
C3_Witness ==
    /\ pc = "signature"
    /\ arg.cards = [i \in 1..DeckCards |-> CardKeys[arg.deck][DeckCards + 1 - i]]
    /\ arg.cards # canonical_deck_signature(arg.cards)

\* C4: in every state of a run every counter of the five aggregate maps has
\* 0 <= wins <= uses.
C4_WinsWithinUses ==
    \A i \in DOMAIN CounterMaps : \A k \in DOMAIN CounterMaps[i] :
        /\ 0 <= CounterMaps[i][k].wins
        /\ CounterMaps[i][k].wins <= CounterMaps[i][k].uses

\* C4 witness: after the second pass, won and lost uses in the player maps
C4_Witness ==
    /\ pc = "summary"
    /\ \E k \in DOMAIN player_type_cards_top :
          /\ player_type_cards_top[k].wins > 0
          /\ player_type_cards_top[k].wins < player_type_cards_top[k].uses
    /\ \E t \in DOMAIN meta_deck_types : meta_deck_types[t].wins = meta_deck_types[t].uses

\* the participant at hand has a tag and eight well-formed cards
ValidParticipant ==
    /\ pc \in {"team", "opp"}
    /\ normalize_tag(Get(CurrentPart, "tag", "")) # ""
    /\ Extracted[CurrentPart.cards] # NoObs

\* the participant on the other side of the match at hand
OtherPart == IF pc = "team" THEN cur.opponent[1] ELSE cur.team[1]

\* the keys of the participant's eight cards under the type dtype
CardCounterKeys(dtype, card_obs) ==
    {<<dtype, card_obs[i].card_id, card_obs[i].card_variant>> : i \in DOMAIN card_obs}

\* the uses of m2 are those of m, and one more at the keys of K
UsesGrowAt(m, m2, K) ==
    /\ K \subseteq DOMAIN m2
    /\ DOMAIN m \subseteq DOMAIN m2
    /\ \A k \in DOMAIN m2 : UsesAt(m2, k) - UsesAt(m, k) = IF k \in K THEN 1 ELSE 0

\* C5: the step that processes a valid participant of a deduplicated ranked
\* 1v1 match adds one use at its deck type, at its (type, deck hash), at each
\* of its eight (type, card, variant) keys, one use at (tag, deck hash) of the
\* player map only if the tag is of the top cohort, and changes the uses of no
\* other counter; no step of the run lowers the uses or the wins of a counter.
C5_OneUsePerParticipant ==
    [][ /\ \A i \in DOMAIN CounterMaps : \A k \in DOMAIN CounterMaps[i] :
              /\ k \in DOMAIN CounterMaps[i]'
              /\ CounterMaps[i]'[k].uses >= CounterMaps[i][k].uses
              /\ CounterMaps[i]'[k].wins >= CounterMaps[i][k].wins
        /\ ValidParticipant =>
              LET tag == normalize_tag(CurrentPart.tag)
                  card_obs == extract_8_cards(CurrentPart, load_card_metadata)
                  dh == deck_hash_of(card_obs)
                  dtype == IF dh \in DOMAIN deck_type_overrides
                           THEN deck_type_overrides[dh]
                           ELSE classify_deck(names_for_classifier_of(card_obs))
              IN  /\ Cardinality(CardCounterKeys(dtype, card_obs)) = DeckCards
                  /\ UsesGrowAt(meta_deck_types, meta_deck_types', {dtype})
                  /\ UsesGrowAt(meta_type_deck_ids, meta_type_deck_ids', {<<dtype, dh>>})
                  /\ UsesGrowAt(meta_type_cards, meta_type_cards',
                                CardCounterKeys(dtype, card_obs))
                  /\ UsesGrowAt(player_decks_top, player_decks_top',
                                IF tag \in top_tags THEN {<<tag, dh>>} ELSE {})
                  /\ player_type_cards_top' = player_type_cards_top
      ]_vars

\* C5 witness: both sides of a match processed, the top player #A on the
\* team side and #C, who is not of the cohort, on the other
C5_Witness ==
    /\ pc = "scan"
    /\ deduped_matches = 1
    /\ cur # <<>>
    /\ Get(cur.team[1], "tag", "") = "#A"
    /\ Get(cur.opponent[1], "tag", "") = "#C"
    /\ TotalUses(meta_deck_types) = 2
    /\ TotalUses(meta_type_cards) = 2 * DeckCards
    /\ TotalUses(player_decks_top) = 1

\* C6: the step that processes a valid participant adds a win, in each map it
\* counts in, exactly when the crowns of its own side exceed those of the
\* other side; over the two participants of a match at most one win is
\* added, and none when the crowns are equal.
C6_WinIffMoreCrowns ==
    [][ ValidParticipant =>
          LET tag == normalize_tag(CurrentPart.tag)
              credit == IF CurrentPart.crowns > OtherPart.crowns THEN 1 ELSE 0
              added(m, m2) == TotalWins(m2) - TotalWins(m)
          IN  /\ added(meta_deck_types, meta_deck_types') = credit
              /\ added(meta_type_deck_ids, meta_type_deck_ids') = credit
              /\ added(meta_type_cards, meta_type_cards') = DeckCards * credit
              /\ added(player_decks_top, player_decks_top')
                    = IF tag \in top_tags THEN credit ELSE 0
              /\ TotalWins(meta_deck_types') - wins0 <= 1
              /\ cur.team[1].crowns = cur.opponent[1].crowns
                    => TotalWins(meta_deck_types') = wins0
      ]_vars

\* C6 witness: a match processed on both sides, the win credited to the
\* opponent side, which has more crowns
C6_Witness ==
    /\ pc = "scan"
    /\ cur # <<>>
    /\ cur.team[1].crowns < cur.opponent[1].crowns
    /\ deduped_matches = 1
    /\ TotalUses(meta_deck_types) = 2
    /\ TotalWins(meta_deck_types) = wins0 + 1
    /\ \E k \in DOMAIN player_decks_top :
          k[1] = Get(cur.opponent[1], "tag", "") /\ player_decks_top[k].wins = 1

\* the archetypes a deck can be filed under
Archetypes ==
    {ARCHETYPE_SIEGE, ARCHETYPE_BAIT, ARCHETYPE_CYCLE, ARCHETYPE_BRIDGE_SPAM,
     ARCHETYPE_BEATDOWN, ARCHETYPE_HYBRID}

\* the player-by-deck keys of player p whose deck is of type t
DecksOfType(p, t) ==
    {k \in DOMAIN player_decks_top : k[1] = p /\ deck_hash_to_type[k[2]] = t}

\* the player-by-type-and-card keys of player p under type t
CardsOfType(p, t) ==
    {k \in DOMAIN player_type_cards_top : k[1] = p /\ k[2] = t}

\* C7: after the second pass, for every top player p and archetype t the
\* uses (the wins) of the player-by-type-and-card counters (p, t, card,
\* variant) sum to eight times the uses (the wins) of the player-by-deck
\* counters of p's decks of type t.
C7_FanOutEightfold ==
    pc \in {"summary", "write", "done", "failed"} =>
        \A p \in top_tags : \A t \in Archetypes :
            /\ SumOver(player_type_cards_top, CardsOfType(p, t), "uses")
                  = DeckCards * SumOver(player_decks_top, DecksOfType(p, t), "uses")
            /\ SumOver(player_type_cards_top, CardsOfType(p, t), "wins")
                  = DeckCards * SumOver(player_decks_top, DecksOfType(p, t), "wins")

\* C7 witness: a top player with two decks of one type, wins among them
C7_Witness ==
    /\ pc = "summary"
    /\ \E p \in top_tags : \E t \in Archetypes :
          /\ Cardinality(DecksOfType(p, t)) = 2
          /\ SumOver(player_decks_top, DecksOfType(p, t), "wins") > 0
          /\ Cardinality(CardsOfType(p, t)) > DeckCards

\* the rules of the cascade in their order, each with whether it matches
CascadeRules(cards) ==
    LET v == precompute_deck_values(cards)
    IN  << [hit |-> \E i \in DOMAIN cards : cards[i] = "X-Bow", label |-> "Siege"],
           [hit |-> \E i \in DOMAIN cards : cards[i] = "Mortar", label |-> "Siege"],
           [hit |-> v.bait_pieces >= 3, label |-> "Bait"],
           [hit |-> v.four_card_cycle_cost <= 9, label |-> "Cycle"],
           [hit |-> v.bridge_spam_count >= 2, label |-> "Bridge Spam"],
           [hit |-> v.big_tank_count >= 1 /\ 2 * v.avg_elixir.num >= 7 * v.avg_elixir.den,
            label |-> "Beatdown"],
           [hit |-> TRUE, label |-> "Hybrid"] >>

FirstMatch(rules) ==
    rules[CHOOSE i \in DOMAIN rules :
             rules[i].hit /\ \A j \in 1..(i - 1) : ~rules[j].hit].label

\* C8: classify_deck returns the label of the first rule of the cascade that
\* matches: X-Bow -> Siege, Mortar -> Siege, bait count >= 3 -> Bait,
\* four-card cycle cost <= 9 -> Cycle, bridge-spam count >= 2 -> Bridge Spam,
\* big tank >= 1 and average elixir >= 3.5 -> Beatdown, else Hybrid.  A list
\* with X-Bow is Siege; a list with three bait cards and no siege card is Bait.
C8_FirstMatchingRule ==
    pc = "classify" =>
        \E rules \in {CascadeRules(arg)} :
            /\ classify_deck(arg) = FirstMatch(rules)
            /\ rules[1].hit => classify_deck(arg) = "Siege"
            /\ (~rules[1].hit /\ ~rules[2].hit /\ rules[3].hit)
                  => classify_deck(arg) = "Bait"

\* C8 witness: three bait cards, no siege card, a four-card cycle cost of 9
C8_Witness ==
    /\ pc = "classify"
    /\ arg = << "Goblin Barrel", "Princess", "Spear Goblins", "Skeletons" >>
    /\ precompute_deck_values(arg).four_card_cycle_cost <= 9
    /\ classify_deck(arg) = "Bait"

\* the type the run is to file each well-formed raw deck under
ResolvedType ==
    [d \in DOMAIN DeckHash |->
        IF DeckHash[d] \in DOMAIN deck_type_overrides
        THEN deck_type_overrides[DeckHash[d]]
        ELSE classify_deck(names_for_classifier_of(Extracted[d]))]

\* the deck types that occur in the keys of the counters
TypesInKeys ==
    DOMAIN meta_deck_types
        \cup {k[1] : k \in DOMAIN meta_type_deck_ids}
        \cup {k[1] : k \in DOMAIN meta_type_cards}
        \cup {k[2] : k \in DOMAIN player_type_cards_top}

\* C9: a deck whose hash has an override is counted under the override type
\* at every observation, the deck dimension holds the override type for it,
\* and no counter key carries a type other than the resolved type of an
\* observed deck, so the classifier's label of the overridden deck is in none.
C9_OverrideReplacesClassifier ==
    /\ TypesInKeys \subseteq {ResolvedType[d] : d \in accepted}
    /\ \A d \in accepted : DeckHash[d] \in DOMAIN deck_type_overrides =>
          LET dh == DeckHash[d]
              over == deck_type_overrides[dh]
          IN  /\ deck_hash_to_type[dh] = over
              /\ over \in DOMAIN meta_deck_types
              /\ \A k \in DOMAIN meta_type_deck_ids : k[2] = dh => k[1] = over
              /\ <<over, dh>> \in DOMAIN meta_type_deck_ids
              /\ CardCounterKeys(over, Extracted[d]) \subseteq DOMAIN meta_type_cards
              /\ (pc \in {"summary", "write", "done", "failed"}) =>
                    \A k \in DOMAIN player_decks_top : k[2] = dh =>
                        \A c \in CardCounterKeys(over, Extracted[d]) :
                            <<k[1]>> \o c \in DOMAIN player_type_cards_top
              /\ (pc = "done" /\ writes # <<>>) =>
                    {r.deck_type : r \in {x \in db["decks"] : x.deck_hash = dh}} = {over}

\* C9 witness: the overridden deck, which the classifier labels otherwise,
\* observed and written
C9_Witness ==
    /\ pc = "done"
    /\ writes # <<>>
    /\ "golem" \in accepted
    /\ DeckHash["golem"] \in DOMAIN deck_type_overrides
    /\ classify_deck(names_for_classifier_of(Extracted["golem"]))
          # deck_type_overrides[DeckHash["golem"]]
    /\ [deck_hash |-> DeckHash["golem"], deck_type |-> "Siege"] \in db["decks"]

\* C10: a step of the write phase that fails, at whichever truncate or insert,
\* leaves the sink as it was before the write phase began.
C10_FailedWriteLeavesSink ==
    [][ (pc = "write" /\ pc' = "failed") => (db' = db /\ db' = InitialSink) ]_vars

\* C10 witness: an insert raised after the truncates and other inserts ran
C10_Witness ==
    /\ pc = "failed"
    /\ failure.op = "insert"
    /\ failure.dirty
    /\ db = InitialSink
    /\ db["meta_deck_types"] # {}

\* C11: a step that writes to the sink starts in the write phase, after the
\* last log was scanned, the second pass ran and the summary was printed; a
\* run with --dry-run prints the summary and writes nothing, then and after.
C11_WritesAfterSummary ==
    [][ /\ (db' # db \/ writes' # writes \/ failure' # failure) =>
              /\ pc = "write"
              /\ pl > Len(top_players)
              /\ summary # <<>>
              /\ summary.entries_scanned = scanned_entries
              /\ ~summary.dry_run_notice
        /\ (summary' # <<>> /\ summary'.dry_run_notice) =>
              /\ db' = InitialSink
              /\ writes' = <<>>
              /\ failure' = <<>>
              /\ pc' = "done"
      ]_vars

\* C11 witness: a dry run over two scanned matches ended, summary printed
C11_Witness ==
    /\ pc = "done"
    /\ summary # <<>>
    /\ summary.dry_run_notice
    /\ summary.deduped_matches = 2
    /\ writes = <<>>
    /\ db = InitialSink

\* C12: the override table holds the rows it held before the run in every
\* state of the run, inside the write transaction too, and no statement of
\* the write phase names it.
C12_OverridesUntouched ==
    /\ db["deck_type_overrides"] = InitialSink["deck_type_overrides"]
    /\ \A i \in DOMAIN writes : writes[i].table # "deck_type_overrides"
    /\ pc = "write" =>
          \E sts \in {WriteStatements} :
              /\ \A i \in DOMAIN sts : sts[i].table # "deck_type_overrides"
              /\ \A tables \in Range(ExecuteAll(db, sts)) :
                    tables["deck_type_overrides"] = InitialSink["deck_type_overrides"]

\* C12 witness: a committed run replaced the snapshot, the overrides are there
C12_Witness ==
    /\ pc = "done"
    /\ writes # <<>>
    /\ db["deck_types"] # InitialSink["deck_types"]
    /\ db["player"] # InitialSink["player"]
    /\ db["deck_type_overrides"] # {}
    /\ db["deck_type_overrides"] = InitialSink["deck_type_overrides"]

\* the raw card lists that are malformed: fewer than eight cards, a card
\* without id among the first eight, or a (card id, variant) pair twice
MalformedDeck ==
    [d \in DOMAIN RawDecks |->
        IF Len(RawDecks[d]) < 8 THEN TRUE
        ELSE IF \E i \in 1..8 : "id" \notin DOMAIN RawDecks[d][i] THEN TRUE
        ELSE \E i, j \in 1..8 :
                /\ i < j
                /\ RawDecks[d][i].id = RawDecks[d][j].id
                /\ Get(RawDecks[d][i], "evolutionLevel", 0)
                      = Get(RawDecks[d][j], "evolutionLevel", 0)]

\* C13: the step that meets a malformed participant changes no counter and
\* no dimension and goes on to the next participant or the next record; the
\* valid participant of the same match is counted with one use as any other.
C13_MalformedParticipantSkipped ==
    [][ /\ (pc \in {"team", "opp"} /\ MalformedDeck[CurrentPart.cards]) =>
              /\ aggregates' = aggregates
              /\ player_type_cards_top' = player_type_cards_top
              /\ pc' = IF pc = "team" THEN "opp" ELSE "scan"
              /\ UNCHANGED <<pl, nscan, seen_matches, deduped_matches>>
        /\ (ValidParticipant /\ MalformedDeck[OtherPart.cards]) =>
              /\ TotalUses(meta_deck_types') = TotalUses(meta_deck_types) + 1
              /\ TotalUses(meta_type_deck_ids') = TotalUses(meta_type_deck_ids) + 1
              /\ TotalUses(meta_type_cards') = TotalUses(meta_type_cards) + DeckCards
              /\ DOMAIN deck_hash_to_type' # {}
      ]_vars

\* C13 witness: after a match with a duplicated pair on the opponent side,
\* counted for its valid side only, a following match was counted on both
C13_Witness ==
    /\ pc = "scan"
    /\ deduped_matches = 2
    /\ \E b \in processed : b.opponent[1].cards = "twice"
    /\ cur # <<>>
    /\ ~MalformedDeck[cur.team[1].cards]
    /\ ~MalformedDeck[cur.opponent[1].cards]
    /\ TotalUses(meta_deck_types) = 3
    /\ TotalUses(meta_type_cards) = 3 * DeckCards

\* the record has exactly one entrant on each side
OneEntrantPerSide(b) == Len(b.team) = 1 /\ Len(b.opponent) = 1

\* C14, as stated: the scan of a record without exactly one entrant on each
\* side changes no counter and adds the record's match hash to seen_matches.
C14_HashOfMisshapenRecordKept ==
    [][ (nscan' = nscan + 1 /\ ~OneEntrantPerSide(cur')) =>
            /\ aggregates' = aggregates
            /\ match_hash(cur') \in seen_matches'
      ]_vars

\* C14, amended: the scan of a record without exactly one entrant on each
\* side is stopped by the ranked 1v1 filter before the hash is taken: it
\* changes no counter, no dimension, neither seen_matches nor
\* deduped_matches, and the scan goes on; the record's hash is never in
\* seen_matches, a later occurrence is stopped by the filter again.
C14_MisshapenRecordFiltered ==
    [][ /\ (nscan' = nscan + 1 /\ ~OneEntrantPerSide(cur')) =>
              /\ aggregates' = aggregates
              /\ player_type_cards_top' = player_type_cards_top
              /\ seen_matches' = seen_matches
              /\ deduped_matches' = deduped_matches
              /\ pc' = "scan"
        /\ \A P \in top_tags : \A b \in BattleLogEntries[P] :
              ~OneEntrantPerSide(b) => match_hash(b) \notin seen_matches'
      ]_vars

\* C14 witness: a ladder record with two entrants on the team side was
\* scanned twice, nothing is seen and nothing counted
C14_Witness ==
    /\ pc = "scan"
    /\ nscan = 2
    /\ cur # <<>>
    /\ Len(cur.team) = 2
    /\ cur.gameMode.id \in RANKED_MODE_ID_WHITELIST
    /\ seen_matches = {}
    /\ deduped_matches = 0
    /\ meta_deck_types = <<>>

\* the number of cards of the list whose elixir cost is e
CardsOfCost(cards, e) ==
    Cardinality({i \in DOMAIN cards : Get(get_card_meta(cards[i]), "elixir", 0) = e})

\* four of the cards cost 1, 2, 2 and 3
HasCosts1223(cards) ==
    /\ CardsOfCost(cards, 1) >= 1
    /\ CardsOfCost(cards, 2) >= 2
    /\ CardsOfCost(cards, 3) >= 1

HasSiegeCard(cards) == \E i \in DOMAIN cards : cards[i] \in {"X-Bow", "Mortar"}

BaitCards(cards) ==
    Cardinality({i \in DOMAIN cards : Get(get_card_meta(cards[i]), "is_bait_piece", FALSE)})

\* C15, as stated: a list with four cards of costs 1, 2, 2, 3 and no siege
\* card is classified Cycle.
C15_CheapFourIsCycle ==
    (pc = "classify" /\ HasCosts1223(arg) /\ ~HasSiegeCard(arg))
        => classify_deck(arg) = "Cycle"

\* C15, amended: a list with four cards of costs 1, 2, 2, 3 and no siege
\* card is classified Cycle when fewer than three of its cards are bait
\* pieces, and Bait when three or more are.
C15_CheapFourIsCycleOrBait ==
    (pc = "classify" /\ HasCosts1223(arg) /\ ~HasSiegeCard(arg))
        => classify_deck(arg) = IF BaitCards(arg) >= 3 THEN "Bait" ELSE "Cycle"

\* C15 witness: eight cards, costs 1, 2, 2, 3 among them and two bait
\* pieces, the four others expensive
C15_Witness ==
    /\ pc = "classify"
    /\ Len(arg) = 8
    /\ HasCosts1223(arg)
    /\ ~HasSiegeCard(arg)
    /\ BaitCards(arg) = 2
    /\ CardsOfCost(arg, 8) = 2
    /\ classify_deck(arg) = "Cycle"

\* the card ids in the rows of deck-card membership and of the two
\* by-type-and-card aggregates, as the run holds them
CardIdsInRows ==
    {deck_hash_to_cards[dh][i].card_id :
        dh \in DOMAIN deck_hash_to_cards, i \in 1..DeckCards}
        \cup {k[2] : k \in DOMAIN meta_type_cards}
        \cup {k[3] : k \in DOMAIN player_type_cards_top}

\* C16: every card id observed in an accepted deck has a card dimension row:
\* the ids of the deck-card rows and of the by-type-and-card rows are all in
\* the card dimension, in the run's maps and in the tables once written.
C16_CardsDimCoversRows ==
    /\ CardIdsInRows \subseteq DOMAIN cards_dim
    /\ (pc = "done" /\ writes # <<>>) =>
          {r.card_id : r \in db["deck_cards"] \cup db["meta_type_cards"]
                                \cup db["player_type_cards"]}
              \subseteq {r.card_id : r \in db["cards"]}

\* the deck types named by the deck rows and the type-keyed aggregate rows
\* of the tables
TypesInWrittenRows ==
    {r.deck_type : r \in db["decks"] \cup db["meta_deck_types"]
                          \cup db["meta_type_deck_ids"] \cup db["meta_type_cards"]
                          \cup db["player_type_cards"]}

\* C17: the deck-type labels, the first rows inserted, hold every deck type
\* that a deck row or a type-keyed aggregate row of the same run names: in
\* the run's maps when the write phase starts, and in the tables written.
C17_LabelsCoverTypes ==
    /\ pc \in {"write", "done", "failed"} =>
          TypesInKeys \subseteq {deck_hash_to_type[dh] : dh \in DOMAIN deck_hash_to_type}
    /\ (pc = "done" /\ writes # <<>>) =>
          /\ \A i \in DOMAIN writes :
                (/\ writes[i].op = "insert"
                 /\ writes[i].table \in {"decks", "meta_deck_types", "meta_type_deck_ids",
                                         "meta_type_cards", "player_type_cards"}) =>
                    \E j \in 1..(i - 1) :
                        writes[j] = [op |-> "insert", table |-> "deck_types"]
          /\ TypesInWrittenRows \subseteq {r.deck_type : r \in db["deck_types"]}

\* C18: the type recorded for a deck hash never changes, and every
\* meta-by-type-and-deck key (deck_type, deck_hash) carries the recorded type
\* of its deck hash, whatever names the later observations carry.
C18_OneTypePerDeckHash ==
    [][ /\ \A dh \in DOMAIN deck_hash_to_type :
              /\ dh \in DOMAIN deck_hash_to_type'
              /\ deck_hash_to_type'[dh] = deck_hash_to_type[dh]
        /\ \A k \in DOMAIN meta_type_deck_ids' : k[1] = deck_hash_to_type'[k[2]]
      ]_vars

=============================================================================
